---- MODULE Spec2Model ----
(***************************************************************************)
(* A model of the brand-website finder (getBrandWebsite.js): the request / *)
(* result pipeline (makeOpenRouterRequest, findBrandWebsite,               *)
(* processBrands), the persistence of Run Records (saveResults), the       *)
(* interruption handler (gracefulShutdown) and main.                       *)
(*                                                                         *)
(* Node.js runs each callback to completion: a signal handler runs only    *)
(* while main is suspended at an await whose promise needs the event loop  *)
(* (the fetch of a request, the one-second delay).  Each action below is   *)
(* one such run-to-completion step.                                        *)
(*                                                                         *)
(* Texts are sequences of fragments; s.includes(x) is "x is a fragment of  *)
(* s".  A null text is the empty sequence.  Timestamps are left out.       *)
(*                                                                         *)
(* Spec is the runs of main, FairSpec those in which requests end and the  *)
(* delay elapses.  Functions applies checkExistingResults (the finder's    *)
(* and the stub's) and main's final status on their own, to inputs larger  *)
(* than a run reaches.  Reports applies analyze_reports.js to a results    *)
(* directory.                                                              *)
(***************************************************************************)
EXTENDS Integers, Sequences, FiniteSets, TLC

\* Longest brandNames.json list explored.
MaxBrands == 2

\* Most Result Records in a stored Run Record file explored.
MaxStored == 2

\* Longest result list whose final status is explored.
MaxResults == 3

\* CONFIG.INITIAL_BRAND_COUNT
INITIAL_BRAND_COUNT == 10

NULL == "null"
UNDEFINED == "undefined"
NullText == << >>

Min(a, b) == IF a < b THEN a ELSE b
Max(a, b) == IF a > b THEN a ELSE b

\* String.prototype.includes / startsWith / endsWith on texts of fragments.
Includes(text, part) ==
    \E n \in 0..(Len(text) - Len(part)) :
        \A m \in DOMAIN part : text[n + m] = part[m]
StartsWith(text, part) ==
    Len(part) <= Len(text) /\ \A m \in DOMAIN part : text[m] = part[m]
EndsWith(text, part) ==
    /\ Len(part) <= Len(text)
    /\ \A m \in DOMAIN part : text[Len(text) - Len(part) + m] = part[m]

(***************************************************************************)
(* CONFIG.MODELS: the keys this model explores, each a text cut at its     *)
(* filesystem-unsafe characters.                                           *)
(***************************************************************************)
DEFAULT_MODEL == <<"gpt-4o", "-mini">>
MODELS == { <<"gpt-4o", "-mini">>, <<"anthropic", "/", "claude-sonnet-4">> }

\* CONFIG.MODELS[modelKey] (lines 24-33), undefined for an unknown key
ModelName(modelKey) ==
    IF modelKey = <<"gpt-4o", "-mini">> THEN "openai/gpt-4o-mini:online"
    ELSE IF modelKey = <<"anthropic", "/", "claude-sonnet-4">>
         THEN "anthropic/claude-sonnet-4:online"
         ELSE UNDEFINED

UnsafeChars == {"/", "\\", ":", "*", "?", "\"", "<", ">", "|"}

\* modelKey.replace(/[\/\\:*?"<>|]/g, '_')
SafeModelKey(modelKey) ==
    [n \in DOMAIN modelKey |->
        IF modelKey[n] \in UnsafeChars THEN "_" ELSE modelKey[n]]

(***************************************************************************)
(* Array.prototype.slice(start, end): negative indexes count from the end. *)
(***************************************************************************)
RelIndex(k, len) == IF k < 0 THEN Max(len + k, 0) ELSE Min(k, len)

SliceOffByOne(arr, start, end) ==
    LET from == RelIndex(start, Len(arr))
        to == RelIndex(end, Len(arr))
    IN  [n \in 1..Max(to - from - 1, 0) |-> arr[from + n]]

Slice(arr, start, end) ==
    LET from == RelIndex(start, Len(arr))
        to == RelIndex(end, Len(arr))
    IN  [n \in 1..Max(to - from, 0) |-> arr[from + n]]

(***************************************************************************)
(* The backend's answers.  The content of a chat completion is a sequence  *)
(* of tokens: braces, "key":value pairs, a key that opens a nested object, *)
(* and free text.                                                          *)
(***************************************************************************)
Tok(t, k, v) == [t |-> t, k |-> k, v |-> v]
LB == Tok("lb", "", "")
RB == Tok("rb", "", "")
TXT == Tok("txt", "", "")
KV(k, v) == Tok("kv", k, v)
KEY(k) == Tok("key", k, "")

BrandNames == {"Acme", "Buck"}
Url == "https://acme.example"

JsonFor(name, url) ==
    <<LB, KV("brand_name", name), KV("website_url", url),
      KV("search_confidence", "high"), RB>>

Contents ==
    { << >>,                                         \* null or "" content
      <<TXT>>,                                       \* prose, no JSON
      JsonFor("Acme", Url),
      JsonFor("Buck", NULL),
      <<TXT>> \o JsonFor("Acme", Url) \o <<TXT>>,    \* JSON inside prose
      <<LB, TXT, RB>>,                               \* braces, not JSON
      <<LB, KV("website_url", Url), KEY("additional_info"), LB,
        KV("founded", NULL), RB, RB>>,               \* no brand_name field
      JsonFor("Acme", Url) \o <<TXT, LB, TXT, RB>> } \* JSON, then more braces

NoUsage ==
    [present |-> FALSE, prompt_tokens |-> 0, completion_tokens |-> 0,
     total_tokens |-> 0, cost |-> 0]
SomeUsage ==
    [present |-> TRUE, prompt_tokens |-> 2, completion_tokens |-> 1,
     total_tokens |-> 3, cost |-> 1]

Resp(kind, status, errorText, choices, content, usage) ==
    [kind |-> kind, status |-> status, errorText |-> errorText,
     choices |-> choices, content |-> content, usage |-> usage]

\* kind:    timeout      AbortSignal.timeout fires, fetch rejects
\*          fetch_failed fetch rejects (transport)
\*          http         response.ok is false
\*          bad_body     response.json() rejects
\*          ok           response.json() resolves
\* choices: missing (no choices field), empty (choices = []), one
Responses ==
    { Resp("timeout", "", << >>, "missing", << >>, NoUsage),
      Resp("fetch_failed", "", << >>, "missing", << >>, NoUsage),
      Resp("http", "429", <<"rate limited">>, "missing", << >>, NoUsage),
      Resp("http", "504", <<"gateway ", "timeout">>, "missing", << >>, NoUsage),
      Resp("bad_body", "200", << >>, "missing", << >>, NoUsage),
      Resp("ok", "200", << >>, "missing", << >>, SomeUsage),
      Resp("ok", "200", << >>, "empty", << >>, NoUsage) }
    \cup { Resp("ok", "200", << >>, "one", c, SomeUsage) : c \in Contents }
    \cup { Resp("ok", "200", << >>, "one", JsonFor("Acme", Url), NoUsage) }

(***************************************************************************)
(* The finder's token tracking (constructor, lines 54-61).                 *)
(***************************************************************************)
InitialTokenUsage ==
    [totalPromptTokens |-> 0, totalCompletionTokens |-> 0, totalTokens |-> 0,
     totalCost |-> 0, requestCount |-> 0, brandTokens |-> << >>]

ZeroTokens ==
    [prompt_tokens |-> 0, completion_tokens |-> 0, total_tokens |-> 0,
     cost |-> 0]

TimeoutMessage == <<"The operation was aborted due to ", "timeout">>
FetchFailedMessage == <<"fetch", " failed">>
BadBodyMessage == <<"Unexpected token < in JSON at position 0">>
NoChoicesMessage == <<"Cannot read properties of undefined (reading '0')">>
NoContentMessage == <<"No content in response", " from model">>
ApiErrorMessage(status, errorText) ==
    <<"OpenRouter API error", ": ", status, " - ">> \o errorText

\* The outcome of one request: it throws `message`, or it returns the
\* response data; tokenUsage is the finder's tracking after the call.
makeOpenRouterRequest(resp, tokenUsage) ==
    CASE resp.kind = "timeout" ->
            [threw |-> TRUE, message |-> TimeoutMessage, tokenUsage |-> tokenUsage]
      [] resp.kind = "fetch_failed" ->
            [threw |-> TRUE, message |-> FetchFailedMessage, tokenUsage |-> tokenUsage]
      [] resp.kind = "http" ->
            [threw |-> TRUE, message |-> ApiErrorMessage(resp.status, resp.errorText),
             tokenUsage |-> tokenUsage]
      [] resp.kind = "bad_body" ->
            [threw |-> TRUE, message |-> BadBodyMessage, tokenUsage |-> tokenUsage]
      [] OTHER ->
            [threw |-> FALSE, message |-> << >>,
             tokenUsage |->
                IF resp.usage.present
                THEN [tokenUsage EXCEPT
                        !.totalPromptTokens = @ + resp.usage.prompt_tokens,
                        !.totalCompletionTokens = @ + resp.usage.completion_tokens,
                        !.totalTokens = @ + resp.usage.total_tokens,
                        !.totalCost = @ + resp.usage.cost,
                        !.requestCount = @ + 1]
                ELSE tokenUsage]

(***************************************************************************)
(* content.match(/\{[\s\S]*\}/): the match starts at the first "{" that a  *)
(* "}" follows and, the star being greedy, ends at the LAST "}".           *)
(***************************************************************************)
SetMin(S) == CHOOSE x \in S : \A y \in S : x <= y
SetMax(S) == CHOOSE x \in S : \A y \in S : x >= y

Opens(content) == {n \in DOMAIN content : content[n].t = "lb"}
ClosesAfter(content, from) ==
    {n \in DOMAIN content : content[n].t = "rb" /\ n > from}

HasJsonMatch(content) ==
    /\ Opens(content) # {}
    /\ ClosesAfter(content, SetMin(Opens(content))) # {}

JsonMatch(content) ==
    LET from == SetMin(Opens(content))
    IN  SubSeq(content, from, SetMax(ClosesAfter(content, from)))

(***************************************************************************)
(* JSON.parse on a matched text: one object, whose members are pairs or a  *)
(* key followed by a nested object, and nothing after its closing brace.   *)
(***************************************************************************)
RECURSIVE ParsesFrom(_, _, _, _)
ParsesFrom(text, n, depth, afterKey) ==
    IF n > Len(text) THEN depth = 0 /\ ~afterKey /\ Len(text) > 0
    ELSE IF depth = 0 /\ n > 1 THEN FALSE
    ELSE CASE text[n].t = "lb" ->
                (n = 1 \/ afterKey) /\ ParsesFrom(text, n + 1, depth + 1, FALSE)
           [] text[n].t = "rb" ->
                depth >= 1 /\ ~afterKey /\ ParsesFrom(text, n + 1, depth - 1, FALSE)
           [] text[n].t = "kv" ->
                depth >= 1 /\ ~afterKey /\ ParsesFrom(text, n + 1, depth, FALSE)
           [] text[n].t = "key" ->
                depth >= 1 /\ ~afterKey /\ ParsesFrom(text, n + 1, depth, TRUE)
           [] OTHER -> FALSE

JsonParses(text) == ParsesFrom(text, 1, 0, FALSE)

Depth(text, n) ==
    Cardinality({m \in 1..(n - 1) : text[m].t = "lb"})
        - Cardinality({m \in 1..(n - 1) : text[m].t = "rb"})

\* The value of a top-level member of the parsed object (the last one wins).
Field(text, k) ==
    LET at == {n \in DOMAIN text :
                 text[n].t = "kv" /\ text[n].k = k /\ Depth(text, n) = 1}
    IN  IF at = {} THEN UNDEFINED ELSE text[SetMax(at)].v

(***************************************************************************)
(* findBrandWebsite: the Result Record of one brand.                       *)
(***************************************************************************)
\* lines 297-306
ErrorTypeUnknownLabel(message) ==
    IF Includes(message, <<"OpenRouter API error">>) THEN "api_error"
    ELSE IF Includes(message, <<"timeout">>) \/ Includes(message, <<"network">>)
         THEN "network_error"
    ELSE IF Includes(message, <<"No content in response">>) THEN "model_error"
    ELSE IF Includes(message, <<"fetch">>) THEN "connection_error"
    ELSE "unknown"

\* the classification with the test for a timeout made first
ErrorTypeTimeoutFirst(message) ==
    IF Includes(message, <<"timeout">>) \/ Includes(message, <<"network">>)
    THEN "network_error"
    ELSE IF Includes(message, <<"OpenRouter API error">>) THEN "api_error"
    ELSE IF Includes(message, <<"No content in response">>) THEN "model_error"
    ELSE IF Includes(message, <<"fetch">>) THEN "connection_error"
    ELSE "unknown_error"

ErrorType(message) ==
    IF Includes(message, <<"OpenRouter API error">>) THEN "api_error"
    ELSE IF Includes(message, <<"timeout">>) \/ Includes(message, <<"network">>)
         THEN "network_error"
    ELSE IF Includes(message, <<"No content in response">>) THEN "model_error"
    ELSE IF Includes(message, <<"fetch">>) THEN "connection_error"
    ELSE "unknown_error"

\* errorType.replace('_', ' ').toUpperCase()
UpperLabel(errorType) ==
    CASE errorType = "api_error" -> "API ERROR"
      [] errorType = "network_error" -> "NETWORK ERROR"
      [] errorType = "model_error" -> "MODEL ERROR"
      [] errorType = "connection_error" -> "CONNECTION ERROR"
      [] OTHER -> "UNKNOWN ERROR"

\* lines 308-330: the record of the catch block
ErrorResult(brandName, message, modelKey) ==
    [brand_name |-> brandName,
     website_url |-> NULL,
     search_confidence |-> "low",
     notes |-> <<UpperLabel(ErrorType(message)), ": ">> \o message,
     model_used |-> modelKey,
     raw_response |-> NullText,
     error_type |-> ErrorType(message),
     success |-> FALSE,
     token_usage |-> ZeroTokens]

\* a fallback record that leaves the usage of its request out
FallbackResultWithoutUsage(brandName, content, modelKey, tokensUsed) ==
    [brand_name |-> brandName,
     website_url |-> NULL,
     search_confidence |-> "low",
     notes |-> <<"Could not parse structured response from model">>,
     model_used |-> modelKey,
     raw_response |-> content,
     error_type |-> "parse_error",
     success |-> FALSE,
     token_usage |-> ZeroTokens]

\* lines 274-291: the fallback record
FallbackResult(brandName, content, modelKey, tokensUsed) ==
    [brand_name |-> brandName,
     website_url |-> NULL,
     search_confidence |-> "low",
     notes |-> <<"Could not parse structured response from model">>,
     model_used |-> modelKey,
     raw_response |-> content,
     error_type |-> "parse_error",
     success |-> FALSE,
     token_usage |-> tokensUsed]

\* lines 258-265: the backend's object, with the run's fields set on it.
\* brand_name, website_url and search_confidence stay what the backend sent.
ParsedResult(brandName, json, content, modelKey, tokensUsed) ==
    [brand_name |-> Field(json, "brand_name"),
     website_url |-> Field(json, "website_url"),
     search_confidence |-> Field(json, "search_confidence"),
     notes |-> NullText,
     model_used |-> modelKey,
     raw_response |-> content,
     error_type |-> NULL,
     success |-> TRUE,
     token_usage |-> tokensUsed]

\* lines 222-291, the try block: it returns a record or throws `message`.
TryFindBrandWebsite(brandName, resp, tokenUsage, modelKey) ==
    LET req == makeOpenRouterRequest(resp, tokenUsage)
        after == req.tokenUsage
        tokensUsed ==
            [prompt_tokens |-> after.totalPromptTokens - tokenUsage.totalPromptTokens,
             completion_tokens |->
                after.totalCompletionTokens - tokenUsage.totalCompletionTokens,
             total_tokens |-> after.totalTokens - tokenUsage.totalTokens,
             cost |-> after.totalCost - tokenUsage.totalCost]
        pushed ==
            [after EXCEPT !.brandTokens =
                Append(@, [brand_name |-> brandName,
                           prompt_tokens |-> tokensUsed.prompt_tokens,
                           completion_tokens |-> tokensUsed.completion_tokens,
                           total_tokens |-> tokensUsed.total_tokens,
                           cost |-> tokensUsed.cost])]
        content == IF resp.choices = "one" THEN resp.content ELSE << >>
        Throw(message, tu) ==
            [threw |-> TRUE, message |-> message,
             result |-> ErrorResult(brandName, message, modelKey),
             tokenUsage |-> tu]
        Return(result, tu) ==
            [threw |-> FALSE, message |-> << >>, result |-> result,
             tokenUsage |-> tu]
    IN  IF req.threw THEN Throw(req.message, after)
        \* response.choices[0] on a body without choices: a TypeError
        ELSE IF resp.choices = "missing" THEN Throw(NoChoicesMessage, after)
        ELSE IF content = << >> THEN Throw(NoContentMessage, pushed)
        ELSE IF HasJsonMatch(content) /\ JsonParses(JsonMatch(content))
        THEN Return(ParsedResult(brandName, JsonMatch(content), content,
                                 modelKey, tokensUsed), pushed)
        ELSE Return(FallbackResult(brandName, content, modelKey, tokensUsed),
                    pushed)

\* findBrandWebsite without its catch block
findBrandWebsiteNoCatch(brandName, resp, tokenUsage, modelKey) ==
    LET try == TryFindBrandWebsite(brandName, resp, tokenUsage, modelKey)
    IN  [rejected |-> try.threw, result |-> try.result,
         tokenUsage |-> try.tokenUsage]

\* lines 198-332.  rejected: the promise rejects instead of resolving to a
\* Result Record; result: the record; tokenUsage: the finder's tracking after.
findBrandWebsite(brandName, resp, tokenUsage, modelKey) ==
    LET try == TryFindBrandWebsite(brandName, resp, tokenUsage, modelKey)
    IN  IF try.threw
        \* the catch block (lines 293-331): every error thrown in the try
        \* block carries a message, so the block itself does not throw
        THEN [rejected |-> FALSE,
              result |-> ErrorResult(brandName, try.message, modelKey),
              tokenUsage |-> try.tokenUsage]
        ELSE [rejected |-> FALSE, result |-> try.result,
              tokenUsage |-> try.tokenUsage]

(***************************************************************************)
(* Run Records.  A file is its name, whether JSON.parse accepts it, its    *)
(* metadata and its results.                                               *)
(***************************************************************************)
IsSuccess(r) == r.success = TRUE
IsFailure(r) == r.success = FALSE
\* a test that overlooks model_error
IsModelIssueApiOnly(r) == r.error_type = "api_error"
\* lines 399 and 556
IsModelIssue(r) == r.error_type = "model_error" \/ r.error_type = "api_error"

\* failed.forEach(...): error_type || 'unknown' -> count
ErrorBreakdown(failed) ==
    LET typeOf(r) == IF r.error_type = NULL THEN "unknown" ELSE r.error_type
    IN  [t \in {typeOf(failed[n]) : n \in DOMAIN failed} |->
            Cardinality({n \in DOMAIN failed : typeOf(failed[n]) = t})]

\* `${((a / b) * 100).toFixed(1)}%`, in tenths of a percent; NaN% when b = 0
SuccessRate(a, b) ==
    IF b = 0 THEN [nan |-> TRUE, tenths |-> 0]
    ELSE [nan |-> FALSE, tenths |-> (2000 * a + b) \div (2 * b)]

\* Math.round(a / b) for a >= 0, b > 0
RoundDiv(a, b) == (2 * a + b) \div (2 * b)

\* the token_usage block of the metadata (lines 400-410 and 558-568);
\* costs in credits, the estimate in millionths of a dollar, the average
\* cost in hundredths of a credit
TokenUsageBlock(tokenUsage) ==
    [total_prompt_tokens |-> tokenUsage.totalPromptTokens,
     total_completion_tokens |-> tokenUsage.totalCompletionTokens,
     total_tokens |-> tokenUsage.totalTokens,
     total_cost_credits |-> tokenUsage.totalCost,
     estimated_cost_usd |-> tokenUsage.totalCost,
     average_tokens_per_brand |->
        RoundDiv(tokenUsage.totalTokens, Max(tokenUsage.requestCount, 1)),
     average_cost_per_brand |->
        RoundDiv(100 * tokenUsage.totalCost, Max(tokenUsage.requestCount, 1)),
     total_requests |-> tokenUsage.requestCount,
     per_brand_breakdown |-> tokenUsage.brandTokens]

Timestamp == "2024-01-15T10-35-22-456Z"

\* lines 371-373
ResultsFileName(modelKey) ==
    <<"brand_websites", "_">> \o SafeModelKey(modelKey)
        \o <<"_", Timestamp, ".json">>

PartialFileNameUnmarked(modelKey) ==
    <<"brand_websites", "_">> \o SafeModelKey(modelKey)
        \o <<"_", Timestamp, ".json">>

\* lines 532-534
PartialFileName(modelKey) ==
    <<"brand_websites", "_">> \o SafeModelKey(modelKey)
        \o <<"_", "PARTIAL", "_", Timestamp, ".json">>

\* lines 370-419: the file saveResults writes
saveResults(results, modelKey, tokenUsage) ==
    LET successful == SelectSeq(results, IsSuccess)
        failed == SelectSeq(results, IsFailure)
    IN  [name |-> ResultsFileName(modelKey),
         parses |-> TRUE,
         metadata |->
            [model_used |-> modelKey,
             model_name |-> ModelName(modelKey),
             total_brands_processed |-> Len(results),
             successful_searches |-> Len(successful),
             failed_searches |-> Len(failed),
             success_rate |-> SuccessRate(Len(successful), Len(results)),
             error_breakdown |-> ErrorBreakdown(failed),
             model_availability |->
                IF Len(SelectSeq(failed, IsModelIssue)) = 0
                THEN "working" ELSE "issues_detected",
             token_usage |-> TokenUsageBlock(tokenUsage)],
         results |-> results]

(***************************************************************************)
(* gracefulShutdown (lines 520-590), one run of the handler: the flag      *)
(* after it, the files it writes and the code it exits with.  The finder   *)
(* is NULL or the finder whose fields are modelKey and tokenUsage.         *)
(***************************************************************************)
PartialRunRecordCountsSuccessful(results, modelKey, tokenUsage) ==
    LET successful == SelectSeq(results, IsSuccess)
        failed == SelectSeq(results, IsFailure)
    IN  [name |-> PartialFileName(modelKey),
         parses |-> TRUE,
         metadata |->
            [model_used |-> modelKey,
             model_name |-> ModelName(modelKey),
             total_brands_processed |-> Len(successful),
             successful_searches |-> Len(successful),
             failed_searches |-> Len(failed),
             success_rate |-> SuccessRate(Len(successful), Len(results)),
             error_breakdown |-> ErrorBreakdown(failed),
             model_availability |->
                IF Len(SelectSeq(failed, IsModelIssue)) = 0
                THEN "working" ELSE "issues_detected",
             status |-> "PARTIAL_RESULTS_DUE_TO_INTERRUPTION",
             token_usage |-> TokenUsageBlock(tokenUsage)],
         results |-> results]

PartialRunRecord(results, modelKey, tokenUsage) ==
    LET successful == SelectSeq(results, IsSuccess)
        failed == SelectSeq(results, IsFailure)
    IN  [name |-> PartialFileName(modelKey),
         parses |-> TRUE,
         metadata |->
            [model_used |-> modelKey,
             model_name |-> ModelName(modelKey),
             total_brands_processed |-> Len(results),
             successful_searches |-> Len(successful),
             failed_searches |-> Len(failed),
             success_rate |-> SuccessRate(Len(successful), Len(results)),
             error_breakdown |-> ErrorBreakdown(failed),
             model_availability |->
                IF Len(SelectSeq(failed, IsModelIssue)) = 0
                THEN "working" ELSE "issues_detected",
             status |-> "PARTIAL_RESULTS_DUE_TO_INTERRUPTION",
             token_usage |-> TokenUsageBlock(tokenUsage)],
         results |-> results]

\* the handler without the test of line 530
gracefulShutdownAlwaysSaves(shuttingDown, finder, results, modelKey, tokenUsage) ==
    IF shuttingDown
    THEN [isShuttingDown |-> TRUE, writes |-> << >>, exitCode |-> 1]
    ELSE [isShuttingDown |-> TRUE,
          writes |-> <<PartialRunRecord(results, modelKey, tokenUsage)>>,
          exitCode |-> 0]

gracefulShutdown(shuttingDown, finder, results, modelKey, tokenUsage) ==
    IF shuttingDown
    THEN [isShuttingDown |-> TRUE, writes |-> << >>, exitCode |-> 1]
    ELSE [isShuttingDown |-> TRUE,
          writes |->
            IF finder # NULL /\ Len(results) > 0
            THEN <<PartialRunRecord(results, modelKey, tokenUsage)>>
            ELSE << >>,
          exitCode |-> 0]

(***************************************************************************)
(* checkExistingResults (lines 80-147), over the listing of the results    *)
(* directory.                                                              *)
(***************************************************************************)
Qualifies(r) == r.success = TRUE /\ r.website_url \notin {NULL, UNDEFINED, ""}

\* a listing that keeps the files of interrupted runs
CandidatesWithPartial(dir, modelKey) ==
    LET prefix == <<"brand_websites", "_">> \o SafeModelKey(modelKey) \o <<"_">>
        IsCandidate(f) ==
            /\ StartsWith(f.name, prefix)
            /\ EndsWith(f.name, <<".json">>)
    IN  SelectSeq(dir, IsCandidate)

\* lines 83-86
Candidates(dir, modelKey) ==
    LET prefix == <<"brand_websites", "_">> \o SafeModelKey(modelKey) \o <<"_">>
        IsCandidate(f) ==
            /\ StartsWith(f.name, prefix)
            /\ EndsWith(f.name, <<".json">>)
            /\ ~Includes(f.name, <<"_", "PARTIAL", "_">>)
    IN  SelectSeq(dir, IsCandidate)

\* lines 93-112: the index of the best file among `files`, 0 when none
BestFile(files) ==
    LET Best[n \in 0..Len(files)] ==
            IF n = 0 THEN [at |-> 0, count |-> 0]
            ELSE IF /\ files[n].parses
                    /\ Len(SelectSeq(files[n].results, Qualifies)) > Best[n - 1].count
                 THEN [at |-> n, count |-> Len(SelectSeq(files[n].results, Qualifies))]
                 ELSE Best[n - 1]
    IN  Best[Len(files)].at

\* lines 114-131, data: bestData, as far as main's verdict goes: the brands
\* of the records of the best file that qualify
FoundBrands(modelKey, dir) ==
    LET files == Candidates(dir, modelKey)
        best == BestFile(files)
    IN  IF Len(files) = 0 \/ best = 0 THEN {}
        ELSE { files[best].results[n].brand_name :
                n \in {k \in DOMAIN files[best].results :
                            Qualifies(files[best].results[k])} }

NoResults ==
    [hasResults |-> FALSE, filepath |-> << >>, successfulCount |-> 0,
     totalCount |-> 0]

\* the check with a threshold that must be exceeded
checkExistingResultsAboveThreshold(count, modelKey, dir) ==
    LET files == Candidates(dir, modelKey)
        best == BestFile(files)
        successful == SelectSeq(files[best].results, Qualifies)
    IN  IF Len(files) = 0 \/ best = 0 THEN NoResults
        ELSE [hasResults |-> Len(successful) > count,
              filepath |-> files[best].name,
              successfulCount |-> Len(successful),
              totalCount |-> Len(files[best].results)]

checkExistingResults(count, modelKey, dir) ==
    LET files == Candidates(dir, modelKey)
        best == BestFile(files)
        successful == SelectSeq(files[best].results, Qualifies)
    IN  IF Len(files) = 0 \/ best = 0 THEN NoResults
        ELSE [hasResults |-> Len(successful) >= count,
              filepath |-> files[best].name,
              successfulCount |-> Len(successful),
              totalCount |-> Len(files[best].results)]

\* lines 651-706: the same check in the finder made for --show without a
\* credential
minimalCheckExistingResults(count, modelKey, dir) ==
    LET files == Candidates(dir, modelKey)
        best == BestFile(files)
        successful == SelectSeq(files[best].results, Qualifies)
    IN  IF Len(files) = 0 \/ best = 0 THEN NoResults
        ELSE [hasResults |-> TRUE,
              filepath |-> files[best].name,
              successfulCount |-> Len(successful),
              totalCount |-> Len(files[best].results)]

(***************************************************************************)
(* The inputs of a run: the command line, the credential, brandNames.json  *)
(* and the results directory.                                              *)
(***************************************************************************)
\* parseInt(text) of an argument; nan when it is no numeral (or is missing)
ParseInt(argv, at) ==
    IF at <= Len(argv) /\ \E n \in -1..(MaxBrands + 1) : argv[at] = <<ToString(n)>>
    THEN [nan |-> FALSE,
          n |-> CHOOSE n \in -1..(MaxBrands + 1) : argv[at] = <<ToString(n)>>]
    ELSE [nan |-> TRUE, n |-> 0]

\* parseInt(args[at]) || dflt
IntArg(argv, at, dflt) ==
    LET p == ParseInt(argv, at)
    IN  IF p.nan \/ p.n = 0 THEN dflt ELSE p.n

HasArg(argv, long, short) ==
    \E n \in DOMAIN argv : argv[n] = <<long>> \/ argv[n] = <<short>>

ModelArgs == MODELS \cup { <<"claude-3-haiku">> }
\* the numerals given for count and startIndex; a count of MaxBrands or
\* more is that of the default
NumberArgs == { <<ToString(n)>> : n \in -1..(MaxBrands - 1) }
Positionals ==
    { << >> } \cup { <<m>> : m \in ModelArgs }
    \cup { <<m, c>> : m \in ModelArgs, c \in NumberArgs }
    \cup { <<m, c, st>> : m \in ModelArgs, c \in NumberArgs, st \in NumberArgs }
FlagArgs ==
    { << >>, << <<"--force">> >>, << <<"-f">> >>, << <<"--show">> >>,
      << <<"-s">> >>, << <<"--force">>, <<"--show">> >> }
Argvs == { p \o f : p \in Positionals, f \in FlagArgs }

BrandLists == UNION { [1..n -> BrandNames] : n \in 0..MaxBrands }
BrandFiles ==
    { [parses |-> FALSE, isArray |-> FALSE, list |-> << >>],
      [parses |-> TRUE, isArray |-> FALSE, list |-> << >>] }
    \cup { [parses |-> TRUE, isArray |-> TRUE, list |-> l] : l \in BrandLists }

StoredResult(name, success, url) ==
    [brand_name |-> name, success |-> success, website_url |-> url]
StoredFile(name, parses, results) ==
    [name |-> name, parses |-> parses, results |-> results]

Directories ==
    { << >>,
      << StoredFile(ResultsFileName(DEFAULT_MODEL), TRUE,
                    << StoredResult("Acme", TRUE, Url),
                       StoredResult("Buck", TRUE, NULL) >>) >>,
      << StoredFile(PartialFileName(DEFAULT_MODEL), TRUE,
                    << StoredResult("Acme", TRUE, Url),
                       StoredResult("Buck", TRUE, Url) >>),
         StoredFile(ResultsFileName(DEFAULT_MODEL), FALSE, << >>) >>,
      << StoredFile(ResultsFileName(DEFAULT_MODEL), TRUE,
                    << StoredResult("Acme", TRUE, Url),
                       StoredResult("Acme", TRUE, Url) >>) >> }

(***************************************************************************)
(* The state of the process.                                               *)
(***************************************************************************)
VARIABLES
    pc,              \* main / fetch (a request is in flight) / delay / exited
    exit,            \* how the process ended: its code; by config (a fatal
                     \* configuration error), existing (the completion
                     \* check), main (after the batch), catch (line 860),
                     \* signal (the handler) or return; at which pc
    isShuttingDown,  \* line 13
    currentResults,  \* line 14
    currentFinder,   \* line 15: NULL or "finder"
    modelKey,        \* the finder's modelKey
    tokenUsage,      \* the finder's tokenUsage
    brands,          \* processBrands' arguments
    startIndex,
    count,
    forceRun,        \* main's flags
    showExisting,
    brandsToProcess, \* processBrands' locals
    results,
    i,
    written,         \* the files this run has written
    fetches,         \* the requests sent to the backend
    answers,         \* what the backend did with each request, in order
    apiKey,          \* process.env.OPENROUTER_API_KEY is set
    args,            \* main's modelKey, count and startIndex (lines 625-627)
    brandData,       \* main's brandData: brandNames.json as it was read
    existingCheck,   \* main's existingCheck: whether checkExistingResults
                     \* was called, its hasResults, and the brands found in
                     \* its data when hasResults
    probe            \* one application of a function (under Functions)

vars ==
    <<pc, exit, isShuttingDown, currentResults, currentFinder, modelKey,
      tokenUsage, brands, startIndex, count, forceRun, showExisting,
      brandsToProcess, results, i, written, fetches, answers, apiKey, args,
      brandData, existingCheck, probe>>

\* the variables of one run of main
run ==
    <<pc, exit, isShuttingDown, currentResults, currentFinder, modelKey,
      tokenUsage, brands, startIndex, count, forceRun, showExisting,
      brandsToProcess, results, i, written, fetches, answers, apiKey, args,
      brandData, existingCheck>>

NotChecked == [called |-> FALSE, hasResults |-> FALSE, found |-> {}]
NoProbe == [of |-> "none"]

Running == [code |-> -1, by |-> "none", at |-> "none"]

Init ==
    /\ pc = "main"
    /\ exit = Running
    /\ isShuttingDown = FALSE
    /\ currentResults = << >>
    /\ currentFinder = NULL
    /\ modelKey = DEFAULT_MODEL
    /\ tokenUsage = InitialTokenUsage
    /\ brands = << >>
    /\ startIndex = 0
    /\ count = INITIAL_BRAND_COUNT
    /\ forceRun = FALSE
    /\ showExisting = FALSE
    /\ brandsToProcess = << >>
    /\ results = << >>
    /\ i = 0
    /\ written = << >>
    /\ fetches = 0
    /\ answers = << >>
    /\ apiKey = FALSE
    /\ args = [modelKey |-> DEFAULT_MODEL, count |-> INITIAL_BRAND_COUNT,
               startIndex |-> 0]
    /\ brandData = [parses |-> FALSE, isArray |-> FALSE, list |-> << >>]
    /\ existingCheck = NotChecked
    /\ probe = NoProbe

\* process.exit(code)
Exit(code, by) ==
    /\ pc' = "exited"
    /\ exit' = [code |-> code, by |-> by, at |-> pc]

\* an exit code that is 1 as soon as failures outnumber successes
FinalExitCodeOfMajority(res) ==
    IF 2 * Len(SelectSeq(res, IsFailure)) > Len(res) THEN 1 ELSE 0

\* lines 846-858: the exit code after a batch that ran to its end
FinalExitCode(res) ==
    IF Len(SelectSeq(res, IsFailure)) = Len(res) THEN 1 ELSE 0

\* main leaving at line 851 before it has saved
mainWritesUnlessAllFailed(res, shuttingDown, key, usage) ==
    IF shuttingDown \/ Len(SelectSeq(res, IsFailure)) = Len(res)
    THEN << >> ELSE <<saveResults(res, key, usage)>>

\* lines 835-842: the files main writes once processBrands has returned
mainWrites(res, shuttingDown, key, usage) ==
    IF shuttingDown THEN << >> ELSE <<saveResults(res, key, usage)>>

\* lines 835-858: main after processBrands has returned `res`
AfterBatch(res) ==
    /\ written' = written \o mainWrites(res, isShuttingDown, modelKey', tokenUsage')
    /\ IF isShuttingDown
       THEN \* line 838: main returns and the process ends with nothing pending
            Exit(0, "return")
       ELSE Exit(FinalExitCode(res), "main")

\* the constructor (lines 49-72): what it throws
ConstructorError(key, hasKey) ==
    IF key \notin MODELS THEN "Model"
    ELSE IF ~hasKey THEN "OPENROUTER_API_KEY"
    ELSE "none"

(***************************************************************************)
(* main (lines 608-868) up to its first suspension: the process exits, or  *)
(* the request for the first brand of the slice is in flight.              *)
(***************************************************************************)
Main ==
    /\ pc = "main"
    /\ \E argv \in Argvs, hasKey \in BOOLEAN, data \in BrandFiles,
          dir \in Directories :
        LET key == IF Len(argv) >= 1 THEN argv[1] ELSE DEFAULT_MODEL
            cnt == IntArg(argv, 2, INITIAL_BRAND_COUNT)
            start == IntArg(argv, 3, 0)
            force == HasArg(argv, "--force", "-f")
            show == HasArg(argv, "--show", "-s")
            error == ConstructorError(key, hasKey)
            minimal == error = "OPENROUTER_API_KEY" /\ show
            check ==
                IF minimal THEN minimalCheckExistingResults(cnt, key, dir)
                ELSE checkExistingResults(cnt, key, dir)
            slice == Slice(data.list, start, start + cnt)
            Quit(code, by) ==
                /\ Exit(code, by)
                /\ UNCHANGED <<isShuttingDown, currentResults, currentFinder,
                               modelKey, tokenUsage, brands, startIndex, count,
                               brandsToProcess, results, i, written, fetches>>
            \* lines 613-781: the configuration is fatal to the run
            fatal ==
                \/ ~data.parses
                \/ error # "none" /\ ~minimal
                \/ ~data.isArray \/ Len(data.list) = 0
                \/ start >= Len(data.list)
        IN  /\ forceRun' = force
            /\ showExisting' = show
            /\ apiKey' = hasKey
            /\ args' = [modelKey |-> key, count |-> cnt, startIndex |-> start]
            /\ brandData' = data
            /\ existingCheck' =
                    IF ~fatal /\ ~force
                    THEN [called |-> TRUE, hasResults |-> check.hasResults,
                          found |-> IF check.hasResults
                                    THEN FoundBrands(key, dir) ELSE {}]
                    ELSE NotChecked
            /\ UNCHANGED <<answers, probe>>
            /\ IF ~data.parses THEN Quit(1, "config")
               ELSE IF error # "none" /\ ~minimal THEN Quit(1, "config")
               ELSE IF ~data.isArray \/ Len(data.list) = 0
                    THEN Quit(1, "config")
               ELSE IF start >= Len(data.list) THEN Quit(1, "config")
               ELSE IF ~force /\ (check.hasResults \/ show)
                    THEN Quit(0, "existing")
               \* the minimal finder has no processBrands: a TypeError, caught
               \* at line 860
               ELSE IF minimal THEN Quit(1, "catch")
               ELSE \* processBrands, lines 335-355
                    /\ modelKey' = key
                    /\ brands' = data.list
                    /\ startIndex' = start
                    /\ count' = cnt
                    /\ brandsToProcess' = slice
                    /\ results' = << >>
                    /\ currentResults' = << >>
                    /\ currentFinder' = "finder"
                    /\ i' = 0
                    /\ UNCHANGED <<isShuttingDown, tokenUsage>>
                    /\ IF Len(slice) = 0
                       THEN /\ AfterBatch(<< >>)
                            /\ UNCHANGED fetches
                       ELSE /\ pc' = "fetch"
                            /\ fetches' = fetches + 1
                            /\ UNCHANGED <<exit, written>>

\* [...results] taken before the push of line 355
CopyBeforePush(res) == SubSeq(res, 1, Len(res) - 1)

\* line 358, [...results]: a new array with the records of `res`
CopyOf(res) == res

\* a request without the timeout of line 176, which the backend never answers
RequestHangs ==
    /\ pc = "fetch"
    /\ UNCHANGED vars

(***************************************************************************)
(* The backend answers the request in flight (or the request times out):   *)
(* findBrandWebsite resumes, then processBrands from line 356 to its next  *)
(* suspension or to its return, then main.                                 *)
(***************************************************************************)
Respond ==
    /\ pc = "fetch"
    /\ \E resp \in Responses :
        LET out == findBrandWebsite(brandsToProcess[i + 1], resp, tokenUsage,
                                    modelKey)
        IN  /\ tokenUsage' = out.tokenUsage
            /\ answers' = Append(answers, resp)
            /\ UNCHANGED <<isShuttingDown, currentFinder, modelKey, brands,
                           startIndex, count, forceRun, showExisting,
                           brandsToProcess, fetches, apiKey, args, brandData,
                           existingCheck, probe>>
            /\ IF out.rejected
               THEN \* the rejection reaches main's catch, lines 860-867
                    /\ Exit(IF isShuttingDown THEN 0 ELSE 1,
                            IF isShuttingDown THEN "return" ELSE "catch")
                    /\ UNCHANGED <<results, currentResults, i, written>>
               ELSE /\ results' = Append(results, out.result)
                    /\ currentResults' = CopyOf(results')
                    /\ IF i < Len(brandsToProcess) - 1 /\ ~isShuttingDown
                       THEN /\ pc' = "delay"
                            /\ UNCHANGED <<exit, i, written>>
                       ELSE /\ i' = i + 1
                            /\ AfterBatch(results')

\* a loop that sends the next two requests without awaiting the first
DelayElapsedTwoAtOnce ==
    /\ pc = "delay"
    /\ i' = i + 1
    /\ pc' = "fetch"
    /\ fetches' = fetches + 2
    /\ UNCHANGED <<exit, written, isShuttingDown, currentResults,
                   currentFinder, modelKey, tokenUsage, brands, startIndex,
                   count, forceRun, showExisting, brandsToProcess, results,
                   answers, apiKey, args, brandData, existingCheck, probe>>

\* The one-second delay ends (line 363): the loop's next turn, lines 345-355.
DelayElapsed ==
    /\ pc = "delay"
    /\ i' = i + 1
    /\ UNCHANGED <<isShuttingDown, currentResults, currentFinder, modelKey,
                   tokenUsage, brands, startIndex, count, forceRun,
                   showExisting, brandsToProcess, results, answers, apiKey,
                   args, brandData, existingCheck, probe>>
    /\ IF isShuttingDown
       THEN /\ AfterBatch(results)
            /\ UNCHANGED fetches
       ELSE /\ pc' = "fetch"
            /\ fetches' = fetches + 1
            /\ UNCHANGED <<exit, written>>

\* a cooperative handler: the request in flight is answered and its record
\* accounted for before the handler saves and the process ends
SignalAfterRequest ==
    /\ pc \in {"fetch", "delay"}
    /\ \E resp \in Responses :
        LET out == findBrandWebsite(brandsToProcess[i + 1], resp, tokenUsage,
                                    modelKey)
            res == IF pc = "fetch" THEN Append(results, out.result)
                   ELSE results
            usage == IF pc = "fetch" THEN out.tokenUsage ELSE tokenUsage
            h == gracefulShutdown(isShuttingDown, currentFinder, res, modelKey,
                                  usage)
        IN  /\ results' = res
            /\ currentResults' = res
            /\ tokenUsage' = usage
            /\ answers' = IF pc = "fetch" THEN Append(answers, resp)
                          ELSE answers
            /\ isShuttingDown' = h.isShuttingDown
            /\ written' = written \o h.writes
            /\ Exit(h.exitCode, "signal")
    /\ UNCHANGED <<currentFinder, modelKey, brands, startIndex, count,
                   forceRun, showExisting, brandsToProcess, i, fetches, apiKey,
                   args, brandData, existingCheck, probe>>

\* a signal delivered after findBrandWebsite has recorded the usage of the
\* request in flight and before processBrands has pushed its record
SignalBeforePush ==
    /\ pc \in {"fetch", "delay"}
    /\ \E resp \in Responses :
        LET out == findBrandWebsite(brandsToProcess[i + 1], resp, tokenUsage,
                                    modelKey)
            usage == IF pc = "fetch" THEN out.tokenUsage ELSE tokenUsage
            h == gracefulShutdown(isShuttingDown, currentFinder, currentResults,
                                  modelKey, usage)
        IN  /\ tokenUsage' = usage
            /\ answers' = IF pc = "fetch" THEN Append(answers, resp)
                          ELSE answers
            /\ isShuttingDown' = h.isShuttingDown
            /\ written' = written \o h.writes
            /\ Exit(h.exitCode, "signal")
    /\ UNCHANGED <<currentResults, currentFinder, modelKey, brands, startIndex,
                   count, forceRun, showExisting, brandsToProcess, results, i,
                   fetches, apiKey, args, brandData, existingCheck, probe>>

\* a handler that saves and returns, leaving the process running
SignalHandlerReturns ==
    /\ pc \in {"fetch", "delay"}
    /\ ~isShuttingDown
    /\ LET h == gracefulShutdown(isShuttingDown, currentFinder, currentResults,
                                 modelKey, tokenUsage)
       IN  /\ isShuttingDown' = h.isShuttingDown
           /\ written' = written \o h.writes
    /\ UNCHANGED <<pc, exit, currentResults, currentFinder, modelKey,
                   tokenUsage, brands, startIndex, count, forceRun,
                   showExisting, brandsToProcess, results, i, fetches, answers,
                   apiKey, args, brandData, existingCheck, probe>>

(***************************************************************************)
(* SIGINT or SIGTERM is delivered while main is suspended: one run of      *)
(* gracefulShutdown, which ends in process.exit.                           *)
(***************************************************************************)
Signal ==
    /\ pc \in {"fetch", "delay"}
    /\ LET h == gracefulShutdown(isShuttingDown, currentFinder, currentResults,
                                 modelKey, tokenUsage)
       IN  /\ isShuttingDown' = h.isShuttingDown
           /\ written' = written \o h.writes
           /\ Exit(h.exitCode, "signal")
    /\ UNCHANGED <<currentResults, currentFinder, modelKey, tokenUsage, brands,
                   startIndex, count, forceRun, showExisting, brandsToProcess,
                   results, i, fetches, answers, apiKey, args, brandData,
                   existingCheck, probe>>

Next == Main \/ Respond \/ DelayElapsed \/ Signal

Spec == Init /\ [][Next]_vars

(***************************************************************************)
(* The runs of main in which time passes: every request ends, by an answer *)
(* or by AbortSignal.timeout(CONFIG.TIMEOUT) (line 176), and the timer of  *)
(* the delay fires (line 363).  A signal may or may not come.              *)
(***************************************************************************)
FairSpec == Spec /\ WF_vars(Respond) /\ WF_vars(DelayElapsed)

(***************************************************************************)
(* The functions of the program applied on their own: from the initial     *)
(* state, one application of checkExistingResults to a threshold and a     *)
(* results directory, or of main's final status to a result list.          *)
(***************************************************************************)
EarlierTimestamp == "2024-01-14T09-12-47-003Z"

\* the name saveResults gave to the file of an earlier run
EarlierFileName(key) ==
    <<"brand_websites", "_">> \o SafeModelKey(key)
        \o <<"_", EarlierTimestamp, ".json">>

StoredFileNames ==
    { ResultsFileName(key) : key \in MODELS }
    \cup { EarlierFileName(DEFAULT_MODEL), PartialFileName(DEFAULT_MODEL) }

\* the Result Records of a stored file, as the check reads them: success
\* and a website_url that is a URL, null or the empty string
StoredResults ==
    { StoredResult("Acme", TRUE, Url), StoredResult("Acme", TRUE, NULL),
      StoredResult("Acme", TRUE, ""), StoredResult("Acme", FALSE, Url) }

StoredResultLists == UNION { [1..n -> StoredResults] : n \in 0..MaxStored }

\* a file that JSON.parse rejects, or one that holds a Run Record
StoredFiles ==
    { StoredFile(name, FALSE, << >>) : name \in StoredFileNames }
    \cup { StoredFile(name, TRUE, list) :
              name \in StoredFileNames, list \in StoredResultLists }

\* fs.readdirSync(CONFIG.OUTPUT_DIR): files of distinct names
StoredDirectories ==
    { << >> } \cup { <<f>> : f \in StoredFiles }
    \cup { d \in { <<f, g>> : f \in StoredFiles, g \in StoredFiles } :
              d[1].name # d[2].name }

\* count = parseInt(args[1]) || 10 is never 0
Thresholds == {-1} \cup 1..MaxStored

ApplyCheckExistingResults ==
    /\ probe = NoProbe
    /\ \E T \in Thresholds, key \in MODELS, dir \in StoredDirectories :
        probe' = [of |-> "checkExistingResults", count |-> T, modelKey |-> key,
                  dir |-> dir, out |-> checkExistingResults(T, key, dir),
                  stub |-> minimalCheckExistingResults(T, key, dir)]
    /\ UNCHANGED run

ResultFlags == { [success |-> b] : b \in BOOLEAN }
ResultFlagLists == UNION { [1..n -> ResultFlags] : n \in 0..MaxResults }

ApplyFinalExitCode ==
    /\ probe = NoProbe
    /\ \E res \in ResultFlagLists :
        probe' = [of |-> "FinalExitCode", results |-> res,
                  out |-> FinalExitCode(res)]
    /\ UNCHANGED run

FunctionsNext == ApplyCheckExistingResults \/ ApplyFinalExitCode

Functions == Init /\ [][FunctionsNext]_vars

(***************************************************************************)
(* analyze_reports.js.  A row of the table keeps the fields the summary    *)
(* reads (model, brandName, websiteUrl, confidence, success, notes,        *)
(* tokenCost, totalTokens, isSummary); description, location and           *)
(* specialties are display text that the Result Records here do not hold.  *)
(***************************************************************************)
\* lines 5-22: the parsed contents of the .json files, in directory order
readAllReports(dir) ==
    LET IsJson(f) == EndsWith(f.name, <<".json">>)
        Parses(f) == f.parses
    IN  SelectSeq(SelectSeq(dir, IsJson), Parses)

\* lines 25-27
extractModelName(metadata) ==
    IF metadata.model_name \notin {NULL, UNDEFINED, ""}
    THEN metadata.model_name
    ELSE IF metadata.model_used # << >> THEN metadata.model_used
    ELSE "Unknown Model"

\* lines 42-54
ResultRow(modelName, result) ==
    [model |-> modelName,
     brandName |-> result.brand_name,
     websiteUrl |-> IF result.website_url \in {NULL, UNDEFINED, ""}
                    THEN "Not Found" ELSE result.website_url,
     confidence |-> IF result.search_confidence \in {NULL, UNDEFINED, ""}
                    THEN "unknown" ELSE result.search_confidence,
     success |-> result.success,
     notes |-> IF result.notes = NullText THEN << >> ELSE result.notes,
     tokenCost |-> result.token_usage.cost,
     totalTokens |-> result.token_usage.total_tokens]

\* lines 58-71
SummaryRow(report) ==
    [model |-> extractModelName(report.metadata),
     brandName |-> "--- MODEL SUMMARY ---",
     websiteUrl |-> <<report.metadata.successful_searches, "/",
                      report.metadata.total_brands_processed, " found">>,
     confidence |-> report.metadata.success_rate,
     success |-> TRUE,
     notes |-> <<"Avg tokens per brand: ",
                 report.metadata.token_usage.average_tokens_per_brand>>,
     tokenCost |-> report.metadata.token_usage.total_cost_credits,
     totalTokens |-> report.metadata.token_usage.total_tokens,
     isSummary |-> TRUE]

\* a table without the summary rows
assembleTableDataWithoutSummaries(dir) ==
    LET reports == readAllReports(dir)
        RowsOf(report) ==
            [n \in DOMAIN report.results |->
                ResultRow(extractModelName(report.metadata), report.results[n])]
        Table[n \in 0..Len(reports)] ==
            IF n = 0 THEN << >>
            ELSE Table[n - 1] \o RowsOf(reports[n])
    IN  Table[Len(reports)]

\* lines 30-75
assembleTableData(dir) ==
    LET reports == readAllReports(dir)
        RowsOf(report) ==
            [n \in DOMAIN report.results |->
                ResultRow(extractModelName(report.metadata), report.results[n])]
        Table[n \in 0..Len(reports)] ==
            IF n = 0 THEN << >>
            ELSE Table[n - 1] \o RowsOf(reports[n]) \o <<SummaryRow(reports[n])>>
    IN  Table[Len(reports)]

\* row.isSummary, undefined in the rows of Result Records
IsSummaryRow(row) == "isSummary" \in DOMAIN row /\ row.isSummary

\* lines 223-249: the `models` map
generateSummaryStats(data) ==
    LET counted == {n \in DOMAIN data : ~IsSummaryRow(data[n])}
        Of(m) == {n \in counted : data[n].model = m}
        Total[S \in SUBSET counted, field \in {"tokenCost", "totalTokens"}] ==
            IF S = {} THEN 0
            ELSE LET n == CHOOSE x \in S : TRUE
                 IN  data[n][field] + Total[S \ {n}, field]
    IN  [m \in {data[n].model : n \in counted} |->
            [totalBrands |-> Cardinality(Of(m)),
             foundUrls |->
                Cardinality({n \in Of(m) : data[n].websiteUrl # "Not Found"}),
             highConfidence |->
                Cardinality({n \in Of(m) : data[n].confidence = "high"}),
             mediumConfidence |->
                Cardinality({n \in Of(m) : data[n].confidence = "medium"}),
             lowConfidence |->
                Cardinality({n \in Of(m) : data[n].confidence = "low"}),
             totalCost |-> Total[Of(m), "tokenCost"],
             totalTokens |-> Total[Of(m), "totalTokens"]]]

(***************************************************************************)
(* The report script applied to a results directory: Run Records that      *)
(* saveResults and the handler write for batches of up to MaxBrands        *)
(* brands, a file that does not parse and a file that is not .json.        *)
(***************************************************************************)
ReportResponses ==
    { Resp("ok", "200", << >>, "one", JsonFor("Acme", Url), SomeUsage),
      Resp("timeout", "", << >>, "missing", << >>, NoUsage) }

ReportBatches ==
    UNION { [1..n -> ReportResponses] : n \in 0..MaxBrands }

\* processBrands on brands all named Acme, the backend answering `resps`
BatchOf(resps, key) ==
    LET Step[n \in 0..Len(resps)] ==
            IF n = 0
            THEN [results |-> << >>, tokenUsage |-> InitialTokenUsage]
            ELSE LET out == findBrandWebsite("Acme", resps[n],
                                             Step[n - 1].tokenUsage, key)
                 IN  [results |-> Append(Step[n - 1].results, out.result),
                      tokenUsage |-> out.tokenUsage]
    IN  Step[Len(resps)]

OtherModel == <<"anthropic", "/", "claude-sonnet-4">>

ReportFiles ==
    { saveResults(BatchOf(b, DEFAULT_MODEL).results, DEFAULT_MODEL,
                  BatchOf(b, DEFAULT_MODEL).tokenUsage) : b \in ReportBatches }
    \cup { [saveResults(BatchOf(b, DEFAULT_MODEL).results, DEFAULT_MODEL,
                        BatchOf(b, DEFAULT_MODEL).tokenUsage)
                EXCEPT !.name = EarlierFileName(DEFAULT_MODEL)] :
              b \in ReportBatches }
    \cup { saveResults(BatchOf(b, OtherModel).results, OtherModel,
                       BatchOf(b, OtherModel).tokenUsage) :
              b \in [1..1 -> ReportResponses] }
    \cup { PartialRunRecord(BatchOf(b, DEFAULT_MODEL).results, DEFAULT_MODEL,
                            BatchOf(b, DEFAULT_MODEL).tokenUsage) :
              b \in [1..1 -> ReportResponses] }
    \cup { StoredFile(EarlierFileName(OtherModel), FALSE, << >>),
           StoredFile(<<"notes", ".txt">>, TRUE, << >>) }

ReportDirectories ==
    { d \in UNION { [1..n -> ReportFiles] : n \in 0..MaxStored } :
        \A j, k \in DOMAIN d : j # k => d[j].name # d[k].name }

ApplyAssembleTableData ==
    /\ probe = NoProbe
    /\ \E dir \in ReportDirectories :
        probe' = [of |-> "assembleTableData", dir |-> dir,
                  out |-> assembleTableData(dir),
                  stats |-> generateSummaryStats(assembleTableData(dir))]
    /\ UNCHANGED run

Reports == Init /\ [][ApplyAssembleTableData]_vars

(***************************************************************************)
(* Properties.                                                             *)
(***************************************************************************)
BatchStarted == currentFinder # NULL
CompletedNormally == pc = "exited" /\ exit.by = "main"
Interrupted == pc = "exited" /\ exit.by = "signal"

\* the requests the backend has answered (or that have timed out)
Answered ==
    IF pc = "fetch" \/ (Interrupted /\ exit.at = "fetch")
    THEN fetches - 1 ELSE fetches

IsPartialFile(f) ==
    /\ "status" \in DOMAIN f.metadata
    /\ f.metadata.status = "PARTIAL_RESULTS_DUE_TO_INTERRUPTION"
    /\ Includes(f.name, <<"_", "PARTIAL", "_">>)

IsCompleteFile(f) ==
    /\ "status" \notin DOMAIN f.metadata
    /\ ~Includes(f.name, <<"_", "PARTIAL", "_">>)

\* C1, as stated: a run of processBrands(brands, S, C) with S < N that no
\* signal interrupts returns min(C, N - S) Result Records, for every S and C.
C1_ReturnsMinOfCountAndRest ==
    CompletedNormally =>
        Len(results) = Min(count, Len(brands) - startIndex)

\* C1, amended: for 0 <= S < N and C >= 0, a run of processBrands that no
\* signal interrupts returns min(C, N - S) Result Records.
C1_ReturnsMinForNaturalArguments ==
    (CompletedNormally /\ startIndex >= 0 /\ count >= 0) =>
        Len(results) = Min(count, Len(brands) - startIndex)

C1_Witness ==
    /\ CompletedNormally
    /\ Len(brands) = 2 /\ startIndex = 0 /\ count = 1
    /\ Len(results) = 1

\* C2: the i-th Result Record has brand_name equal to brands[S + i],
\* whatever the backend answers.
C2_BrandNameIsTheInput ==
    startIndex >= 0 =>
        \A n \in DOMAIN results :
            results[n].brand_name = brands[startIndex + n]

\* an answer that is one of findBrandWebsite's failure paths
FailureAnswer(resp) ==
    \/ resp.kind # "ok"
    \/ resp.choices # "one"
    \/ resp.content = << >>
    \/ ~HasJsonMatch(resp.content)
    \/ ~JsonParses(JsonMatch(resp.content))

\* C3: findBrandWebsite produces exactly one Result Record for each request
\* and never rejects, whatever the backend does; a failure path gives a
\* record with success = false and an error_type that is not null.
C3_OneRecordNeverThrows ==
    /\ exit.by = "catch" => exit.at = "main"
    /\ Len(results) = Answered
    /\ \A n \in DOMAIN results :
            results[n].success = FALSE => results[n].error_type # NULL
    /\ pc = "fetch" =>
        \A resp \in Responses :
            LET out == findBrandWebsite(brandsToProcess[i + 1], resp,
                                        tokenUsage, modelKey)
            IN  /\ ~out.rejected
                /\ FailureAnswer(resp) =>
                    /\ out.result.success = FALSE
                    /\ out.result.error_type # NULL

C3_Witness ==
    /\ pc = "delay"
    /\ Len(results) = 1
    /\ results[1].success = FALSE
    /\ results[1].error_type = "connection_error"

FiveFailureKinds ==
    {"api_error", "network_error", "connection_error", "model_error",
     "parse_error"}

\* C4, as stated: success = true implies error_type = null, and success =
\* false implies error_type is one of the five failure kinds.
C4_FiveFailureKinds ==
    \A n \in DOMAIN results :
        /\ results[n].success = TRUE => results[n].error_type = NULL
        /\ results[n].success = FALSE =>
            results[n].error_type \in FiveFailureKinds

\* C4, amended: success = true implies error_type = null, and success =
\* false implies error_type is one of the five failure kinds or
\* unknown_error.
C4_SixFailureKinds ==
    \A n \in DOMAIN results :
        /\ results[n].success = TRUE => results[n].error_type = NULL
        /\ results[n].success = FALSE =>
            results[n].error_type \in FiveFailureKinds \cup {"unknown_error"}

C4_Witness ==
    /\ Len(results) = 2
    /\ results[1].error_type = "unknown_error"
    /\ results[2].success = TRUE

\* C5: for a list of distinct brands, the accumulated result list holds one
\* Result Record per brand processed so far and no two of its records have
\* the same brand_name.
C5_OneRecordPerBrandDistinctNames ==
    (\A m, n \in DOMAIN brandsToProcess :
        m # n => brandsToProcess[m] # brandsToProcess[n]) =>
        /\ Len(currentResults) = Answered
        /\ \A m, n \in DOMAIN currentResults :
            m # n => currentResults[m].brand_name # currentResults[n].brand_name

\* C6, as stated: for every k >= 0, a first signal delivered while the
\* request for brand k is in flight yields a partial Run Record file with
\* exactly the k records completed before it, the status marker and
\* total_brands_processed = k.
C6_PartialRecordOfKResults ==
    (Interrupted /\ exit.at = "fetch") =>
        /\ Len(written) = 1
        /\ IsPartialFile(written[1])
        /\ written[1].results = results
        /\ Len(results) = i
        /\ written[1].metadata.total_brands_processed = i

\* C6, amended: for every k >= 1, a first signal delivered while the request
\* for brand k is in flight yields a partial Run Record file with exactly
\* the k records completed before it, the status marker and
\* total_brands_processed = k; for k = 0 no file is written.
C6_PartialRecordOfKResultsFromOne ==
    (Interrupted /\ exit.at = "fetch") =>
        IF i = 0 THEN written = << >>
        ELSE /\ Len(written) = 1
             /\ IsPartialFile(written[1])
             /\ written[1].results = results
             /\ Len(results) = i
             /\ written[1].metadata.total_brands_processed = i

C6_Witness ==
    /\ Interrupted /\ exit.at = "fetch"
    /\ i = 1
    /\ Len(written) = 1
    /\ written[1].metadata.total_brands_processed = 1

\* C7: the first signal received with at least one accumulated Result
\* Record sets the shutdown flag, writes one Run Record with status
\* PARTIAL_RESULTS_DUE_TO_INTERRUPTION to a file named with the _PARTIAL_
\* marker, and ends the process with exit code 0.
C7_FirstSignalSavesPartial ==
    (Interrupted /\ Len(currentResults) >= 1) =>
        /\ isShuttingDown
        /\ Len(written) = 1
        /\ IsPartialFile(written[1])
        /\ written[1].results = currentResults
        /\ exit.code = 0

C7_Witness ==
    /\ Interrupted /\ exit.at = "delay"
    /\ isShuttingDown
    /\ Len(currentResults) = 1
    /\ Len(written) = 1
    /\ exit.code = 0

\* The handler ends in process.exit: no step is taken with the flag set.
ShutdownFlagOnlyWhenExited == isShuttingDown => pc = "exited"

\* C9: a first signal that arrives when no Result Record has been
\* accumulated writes no file and ends the process with exit code 0.
C9_NothingToSave ==
    (Interrupted /\ Len(currentResults) = 0) =>
        /\ written = << >>
        /\ exit.code = 0

C9_Witness ==
    /\ Interrupted
    /\ BatchStarted
    /\ currentResults = << >>
    /\ written = << >>
    /\ exit.code = 0

\* C10, as stated: a run that starts a batch writes a Run Record file
\* exactly once, at its end: the file of saveResults or the partial file of
\* the handler, whenever the signal arrives.
C10_ExactlyOneFile ==
    /\ pc # "exited" => written = << >>
    /\ (pc = "exited" /\ BatchStarted) =>
        /\ Len(written) = 1
        /\ IsCompleteFile(written[1]) \/ IsPartialFile(written[1])

\* C10, amended: a run that starts a batch writes at most one Run Record
\* file, at its end: the file of saveResults when the batch runs to its
\* end, the partial file of the handler when a signal arrives after the
\* first Result Record, and no file when a signal arrives before it.
C10_OneFileUnlessInterruptedEarly ==
    /\ pc # "exited" => written = << >>
    /\ (pc = "exited" /\ BatchStarted) =>
        /\ exit.by \in {"main", "signal"}
        /\ exit.by = "main" =>
            Len(written) = 1 /\ IsCompleteFile(written[1])
        /\ (exit.by = "signal" /\ Len(results) >= 1) =>
            Len(written) = 1 /\ IsPartialFile(written[1])
        /\ (exit.by = "signal" /\ Len(results) = 0) => written = << >>

C10_Witness ==
    /\ CompletedNormally
    /\ Len(results) = 2
    /\ Len(written) = 1
    /\ IsCompleteFile(written[1])
    /\ exit.code = 1

\* the run is past main's validation of its configuration (lines 613-781)
Configured == pc # "main" /\ exit.by # "config"

\* C12: in a run of main without --force the Completion Store check happens
\* before the batch starts, and when it reports sufficient results no
\* backend request is issued and the process exits with code 0; with --force
\* the check is bypassed and the batch runs.
C12_CheckedUnlessForced ==
    /\ (Configured /\ ~forceRun) => existingCheck.called
    /\ (existingCheck.called /\ existingCheck.hasResults) =>
            /\ fetches = 0
            /\ ~BatchStarted
            /\ pc = "exited" /\ exit.code = 0
    /\ (Configured /\ forceRun) => ~existingCheck.called /\ BatchStarted

\* C13: whatever the other arguments and flags, a run of main given --show
\* (or -s) displays the existing results or reports that none exist, and
\* exits without issuing any backend request.
C13_ShowNeverQueries ==
    showExisting =>
        /\ fetches = 0
        /\ Configured => pc = "exited" /\ exit.by = "existing" /\ exit.code = 0

\* C14, as stated: when a termination signal arrives while a backend request
\* is in flight, that request completes or times out and its Result Record
\* is accounted for before the run stops.
C14_RequestInFlightCompletes ==
    (pc = "exited" /\ BatchStarted) => Len(results) = fetches

\* C14, amended: when a termination signal arrives while a backend request
\* is in flight, the handler runs at once and ends the process: the request
\* is abandoned, no Result Record is accounted for it, and the records saved
\* are those of the requests answered before it.
C14_RequestInFlightAbandoned ==
    (Interrupted /\ exit.at = "fetch") =>
        /\ Len(results) = fetches - 1
        /\ currentResults = results
        /\ Len(tokenUsage.brandTokens) <= fetches - 1
        /\ \A n \in DOMAIN written : written[n].results = results

C14_Witness ==
    /\ Interrupted /\ exit.at = "fetch"
    /\ fetches = 2
    /\ Len(results) = 1
    /\ Len(written) = 1
    /\ Len(written[1].results) = 1

\* the requests sent whose Result Record is not yet in the result list
Outstanding == fetches - Len(results)

\* C15: at most one backend request is outstanding: the request for brand
\* i+1 is issued only after the request for brand i has produced its Result
\* Record.
C15_OneRequestAtATime ==
    /\ Outstanding \in {0, 1}
    /\ Outstanding = 1 <=> (pc = "fetch" \/ (Interrupted /\ exit.at = "fetch"))
    /\ pc = "fetch" => (fetches = i + 1 /\ Len(results) = i)
    /\ fetches <= Len(brandsToProcess)

C15_Witness ==
    /\ pc = "fetch"
    /\ fetches = 2
    /\ Len(results) = 1
    /\ Outstanding = 1

ResultRecordFields ==
    {"brand_name", "website_url", "search_confidence", "notes", "model_used",
     "raw_response", "error_type", "success", "token_usage"}

\* C16: wherever the interruption handler can run, currentResults holds
\* exactly the Result Records of the brands completed so far, in processing
\* order and each fully formed, and currentFinder is the finder running the
\* batch.
C16_SnapshotIsCurrent ==
    pc \in {"fetch", "delay"} =>
        /\ currentResults = results
        /\ Len(currentResults) = IF pc = "fetch" THEN i ELSE i + 1
        /\ \A n \in DOMAIN currentResults :
                /\ DOMAIN currentResults[n] = ResultRecordFields
                /\ currentResults[n].model_used = modelKey
                /\ currentResults[n].success = FALSE =>
                        currentResults[n].brand_name = brandsToProcess[n]
        /\ currentFinder = "finder"

C16_Witness ==
    /\ pc = "delay"
    /\ Len(currentResults) = 1
    /\ currentResults = results
    /\ currentResults[1].success = TRUE
    /\ currentFinder = "finder"

\* the configuration errors of C18, in a run that has read its configuration
ConfigurationError ==
    \/ ~apiKey
    \/ args.modelKey \notin MODELS
    \/ ~brandData.parses \/ ~brandData.isArray \/ Len(brandData.list) = 0
    \/ args.startIndex \notin 0..(Len(brandData.list) - 1)

\* C18: a run of main without --show that has a missing credential, an
\* unknown model key, a missing, non-array or empty input list, or a start
\* index outside the brand list exits with code 1 before any backend request
\* is issued and before any Run Record file is written.
C18_ConfigurationErrorExitsOne ==
    (pc # "main" /\ ~showExisting /\ ConfigurationError) =>
        /\ pc = "exited" /\ exit.code = 1
        /\ fetches = 0
        /\ written = << >>

\* the answer carries a completion whose content is null or empty
EmptyContent(resp) ==
    /\ resp.kind = "ok"
    /\ resp.choices # "missing"
    /\ (resp.choices = "empty" \/ resp.content = << >>)

UsageDelta(resp) ==
    IF resp.usage.present
    THEN [prompt_tokens |-> resp.usage.prompt_tokens,
          completion_tokens |-> resp.usage.completion_tokens,
          total_tokens |-> resp.usage.total_tokens,
          cost |-> resp.usage.cost]
    ELSE [prompt_tokens |-> 0, completion_tokens |-> 0, total_tokens |-> 0,
          cost |-> 0]

\* C20: for non-empty content in which no JSON object is found, or whose
\* extracted text fails to parse, findBrandWebsite returns a record with
\* success = false, error_type = parse_error, search_confidence = low,
\* website_url = null, raw_response equal to the content and token_usage
\* equal to the usage delta of the request, as on the success path.
C20_FallbackRecord ==
    \A n \in DOMAIN results :
        (answers[n].kind = "ok" /\ answers[n].choices = "one"
            /\ answers[n].content # << >>) =>
        IF HasJsonMatch(answers[n].content)
            /\ JsonParses(JsonMatch(answers[n].content))
        THEN /\ results[n].success = TRUE
             /\ results[n].raw_response = answers[n].content
             /\ results[n].token_usage = UsageDelta(answers[n])
        ELSE /\ results[n].success = FALSE
             /\ results[n].error_type = "parse_error"
             /\ results[n].search_confidence = "low"
             /\ results[n].website_url = NULL
             /\ results[n].raw_response = answers[n].content
             /\ results[n].token_usage = UsageDelta(answers[n])

C20_Witness ==
    /\ Len(results) = 2
    /\ results[1].error_type = "parse_error"
    /\ results[1].raw_response = <<LB, TXT, RB>>
    /\ results[1].token_usage.total_tokens = 3
    /\ results[2].error_type = "parse_error"
    /\ results[2].raw_response = <<TXT>>

(***************************************************************************)
(* The Completion Store (under Functions).                                 *)
(***************************************************************************)
StoreProbe == probe.of = "checkExistingResults"

\* the records of file f that count: success = true and a website_url that
\* is present and not null and, when nonEmpty, not the empty string
QualifyingCount(f, nonEmpty) ==
    Cardinality({n \in DOMAIN f.results :
        /\ f.results[n].success = TRUE
        /\ f.results[n].website_url \notin {NULL, UNDEFINED}
        /\ nonEmpty => f.results[n].website_url # ""})

\* the files of a candidate list that parse, as indexes of the list
Parseable(files) == {n \in DOMAIN files : files[n].parses}

MaxQualifying(files, nonEmpty) ==
    SetMax({QualifyingCount(files[n], nonEmpty) : n \in Parseable(files)})

\* the file named `filepath` is a parseable candidate with `most` records
\* that count
SelectsBest(files, filepath, most, nonEmpty) ==
    \E n \in Parseable(files) :
        /\ files[n].name = filepath
        /\ QualifyingCount(files[n], nonEmpty) = most

\* C11, as stated: checkExistingResults(T) selects the parseable candidate
\* with the most records having success = true and a present, non-null
\* website_url, reports hasResults = true iff that maximum is >= T, and
\* reports hasResults = false when no candidate parses.
C11_SufficientIffMaxAtLeastT ==
    StoreProbe =>
        LET files == Candidates(probe.dir, probe.modelKey)
            most == MaxQualifying(files, FALSE)
        IN  IF Parseable(files) = {} THEN ~probe.out.hasResults
            ELSE /\ probe.out.hasResults <=> most >= probe.count
                 /\ probe.out.hasResults =>
                        SelectsBest(files, probe.out.filepath, most, FALSE)

\* C11, amended: checkExistingResults(T) selects the parseable candidate
\* with the most records having success = true and a website_url that is
\* present, not null and not empty, reports hasResults = true iff that
\* maximum is >= T and >= 1, and reports hasResults = false when no
\* candidate parses.
C11_SufficientIffPositiveMaxAtLeastT ==
    StoreProbe =>
        LET files == Candidates(probe.dir, probe.modelKey)
            most == MaxQualifying(files, TRUE)
        IN  IF Parseable(files) = {} THEN ~probe.out.hasResults
            ELSE /\ probe.out.hasResults <=> (most >= probe.count /\ most >= 1)
                 /\ most >= 1 =>
                        /\ SelectsBest(files, probe.out.filepath, most, TRUE)
                        /\ probe.out.successfulCount = most

C11_Witness ==
    /\ StoreProbe
    /\ probe.count = 2
    /\ Len(probe.dir) = 2
    /\ Parseable(Candidates(probe.dir, probe.modelKey)) = {1, 2}
    /\ QualifyingCount(probe.dir[1], TRUE) = 1
    /\ QualifyingCount(probe.dir[2], TRUE) = 2
    /\ probe.out.hasResults
    /\ probe.out.filepath = probe.dir[2].name

(***************************************************************************)
(* main's final status (under Functions).                                  *)
(***************************************************************************)
StatusProbe == probe.of = "FinalExitCode"

Failures(res) == Cardinality({n \in DOMAIN res : res[n].success = FALSE})
Successes(res) == Cardinality({n \in DOMAIN res : res[n].success = TRUE})

\* C17: after a batch that completes normally, main exits with code 1 if
\* every Result Record has success = false, and with code 0 otherwise,
\* including when failures outnumber successes.
C17_ExitOneOnlyWhenAllFailed ==
    StatusProbe =>
        probe.out =
            IF \A n \in DOMAIN probe.results : probe.results[n].success = FALSE
            THEN 1 ELSE 0

C17_Witness ==
    /\ StatusProbe
    /\ Successes(probe.results) = 1
    /\ Failures(probe.results) = 2
    /\ probe.out = 0

\* The same in the runs of main: the exit code after the batch is the final
\* status of its results.
MainExitsWithFinalStatus ==
    CompletedNormally =>
        exit.code = IF Failures(results) = Len(results) THEN 1 ELSE 0

(***************************************************************************)
(* The first top-level brace-delimited object of a text: from the first    *)
(* "{" to the "}" that closes it.                                          *)
(***************************************************************************)
BracesBalanced(content, from, to) ==
    Cardinality({n \in from..to : content[n].t = "lb"})
        = Cardinality({n \in from..to : content[n].t = "rb"})

HasFirstObject(content) ==
    /\ Opens(content) # {}
    /\ \E n \in ClosesAfter(content, SetMin(Opens(content))) :
            BracesBalanced(content, SetMin(Opens(content)), n)

FirstObject(content) ==
    LET from == SetMin(Opens(content))
    IN  SubSeq(content, from,
               SetMin({n \in ClosesAfter(content, from) :
                            BracesBalanced(content, from, n)}))

\* C21: for every non-empty response content, whenever the first top-level
\* brace-delimited object of the text is valid JSON, findBrandWebsite returns
\* a record with success = true and error_type = null, whatever text
\* (further braces included) follows the object.
C21_FirstObjectIsExtracted ==
    \A n \in DOMAIN results :
        (/\ answers[n].kind = "ok"
         /\ answers[n].choices = "one"
         /\ answers[n].content # << >>
         /\ HasFirstObject(answers[n].content)
         /\ JsonParses(FirstObject(answers[n].content))) =>
        /\ results[n].success = TRUE
        /\ results[n].error_type = NULL

\* the same, for the contents that have no brace after the first object
C21_ObjectFollowedByProse ==
    \A n \in DOMAIN results :
        (/\ answers[n].kind = "ok"
         /\ answers[n].choices = "one"
         /\ answers[n].content # << >>
         /\ HasFirstObject(answers[n].content)
         /\ JsonParses(FirstObject(answers[n].content))
         /\ FirstObject(answers[n].content) = JsonMatch(answers[n].content)) =>
        /\ results[n].success = TRUE
        /\ results[n].error_type = NULL

(***************************************************************************)
(* Token accounting of the Run Records a run writes.                       *)
(***************************************************************************)
UsageSum(res, field) ==
    LET Sum[n \in 0..Len(res)] ==
            IF n = 0 THEN 0 ELSE Sum[n - 1] + res[n].token_usage[field]
    IN  Sum[Len(res)]

TotalsAreSums(f) ==
    /\ f.metadata.token_usage.total_prompt_tokens
            = UsageSum(f.results, "prompt_tokens")
    /\ f.metadata.token_usage.total_completion_tokens
            = UsageSum(f.results, "completion_tokens")
    /\ f.metadata.token_usage.total_tokens = UsageSum(f.results, "total_tokens")
    /\ f.metadata.token_usage.total_cost_credits = UsageSum(f.results, "cost")

\* the backend reported usage for a request whose record is a failure
UsageOfFailedRequest(resp) ==
    /\ resp.kind = "ok"
    /\ resp.usage.present
    /\ (resp.choices # "one" \/ resp.content = << >>)

\* C22: in every Run Record written for a run (normal or partial), the
\* totals of metadata.token_usage (prompt, completion, total tokens, cost)
\* equal the sums of the token_usage fields of the Result Records in
\* results, each of which is the usage the backend reported for the single
\* request of that brand.
C22_TotalsAreSumsOfRecords ==
    \A k \in DOMAIN written :
        /\ TotalsAreSums(written[k])
        /\ \A n \in DOMAIN written[k].results :
                written[k].results[n].token_usage = UsageDelta(answers[n])

\* the same, for the runs in which every request with reported usage gave
\* content
C22_TotalsAreSumsWhenContentCame ==
    (\A n \in DOMAIN answers : ~UsageOfFailedRequest(answers[n])) =>
        C22_TotalsAreSumsOfRecords

\* C23: once the shutdown flag has been set by a termination signal, no new
\* backend request is started and no inter-request delay is begun: the
\* process has ended in the handler, the requests sent are those sent before
\* the signal, and the brands after the one being processed when the signal
\* arrived are never queried.
C23_NoRequestAfterShutdown ==
    isShuttingDown =>
        /\ pc = "exited"
        /\ exit.by = "signal"
        /\ fetches = Len(answers) + (IF exit.at = "fetch" THEN 1 ELSE 0)
        /\ fetches = i + 1

\* a signal during the delay after the first of two brands: the second brand
\* is never queried
C23_Witness ==
    /\ isShuttingDown
    /\ exit.at = "delay"
    /\ Len(brandsToProcess) = 2
    /\ fetches = 1
    /\ Len(results) = 1

\* C24: for every result list and finder state, the metadata computed by the
\* interruption handler (counts, success_rate, error_breakdown,
\* model_availability, token_usage) equals the metadata saveResults computes
\* for the same list and state, differing only by the added status field; in
\* both, successful_searches + failed_searches = total_brands_processed and
\* model_availability is "working" iff no record has error_type api_error
\* or model_error.
C24_HandlerMetadataIsSaveMetadata ==
    LET partial == PartialRunRecord(results, modelKey, tokenUsage).metadata
        saved == saveResults(results, modelKey, tokenUsage).metadata
    IN  /\ DOMAIN partial = DOMAIN saved \cup {"status"}
        /\ "status" \notin DOMAIN saved
        /\ \A k \in DOMAIN saved : partial[k] = saved[k]
        /\ saved.successful_searches + saved.failed_searches
                = saved.total_brands_processed
        /\ saved.total_brands_processed = Len(results)
        /\ (saved.model_availability = "working") <=>
                (\A n \in DOMAIN results :
                    results[n].error_type \notin {"api_error", "model_error"})
        /\ saved.model_availability \in {"working", "issues_detected"}
        /\ \A k \in DOMAIN written :
                written[k].metadata =
                    IF IsPartialFile(written[k]) THEN partial ELSE saved

\* a partial Run Record of one model_error, written during the delay
C24_Witness ==
    /\ Interrupted
    /\ Len(written) = 1
    /\ written[1].metadata.status = "PARTIAL_RESULTS_DUE_TO_INTERRUPTION"
    /\ written[1].metadata.successful_searches = 0
    /\ written[1].metadata.failed_searches = 1
    /\ written[1].metadata.model_availability = "issues_detected"
    /\ results[1].error_type = "model_error"
    /\ saveResults(results, modelKey, tokenUsage).metadata.model_availability
            = "issues_detected"

\* C25: for every model key M, a file written by saveResults for M is a
\* candidate of checkExistingResults for M in later runs, and a file written
\* by the interruption handler (its name contains _PARTIAL_) is never a
\* candidate, so a partial run never causes a later run to be skipped.
C25_SavedIsCandidatePartialIsNot ==
    \A k \in DOMAIN written :
        IF IsPartialFile(written[k])
        THEN \A m \in MODELS :
                /\ Candidates(<<written[k]>>, m) = << >>
                /\ ~checkExistingResults(1, m, <<written[k]>>).hasResults
        ELSE /\ written[k].name = ResultsFileName(modelKey)
             /\ Candidates(<<written[k]>>, modelKey) = <<written[k]>>

\* a partial file that holds a qualifying record, for a model key with "/"
C25_Witness ==
    /\ Interrupted
    /\ Len(written) = 1
    /\ IsPartialFile(written[1])
    /\ modelKey # DEFAULT_MODEL
    /\ SafeModelKey(modelKey) # modelKey
    /\ Len(SelectSeq(written[1].results, Qualifies)) = 1

(***************************************************************************)
(* The report script (under Reports).                                      *)
(***************************************************************************)
ReportProbe == probe.of = "assembleTableData"

\* the files of a directory that hold a parseable Run Record
RunRecordFiles(dir) ==
    {k \in DOMAIN dir : dir[k].parses /\ EndsWith(dir[k].name, <<".json">>)}

\* the rows due for the first k files: one per Result Record and one more
\* per file
RowsThrough(dir, k) ==
    LET Rows[j \in 0..Len(dir)] ==
            IF j = 0 THEN 0
            ELSE Rows[j - 1] + (IF j \in RunRecordFiles(dir)
                                THEN Len(dir[j].results) + 1 ELSE 0)
    IN  Rows[k]

\* the Result Records of the files whose model identifier is m
RecordsOfModel(dir, m) ==
    LET Records[j \in 0..Len(dir)] ==
            IF j = 0 THEN 0
            ELSE Records[j - 1]
                    + (IF j \in RunRecordFiles(dir)
                            /\ dir[j].metadata.model_name = m
                       THEN Len(dir[j].results) ELSE 0)
    IN  Records[Len(dir)]

\* C26: for every set of parseable Run Record files in the results
\* directory, assembleTableData returns one row per Result Record, tagged
\* with the model identifier of its file and in file order, followed by
\* exactly one summary row per file, so the row count is the number of Result
\* Records plus the number of files; generateSummaryStats counts only the
\* rows that are not summary rows.
C26_RowsPerRecordAndSummaryPerFile ==
    ReportProbe =>
        LET dir == probe.dir
            rows == probe.out
            stats == probe.stats
        IN  /\ Len(rows) = RowsThrough(dir, Len(dir))
            /\ \A k \in RunRecordFiles(dir) :
                LET before == RowsThrough(dir, k - 1)
                    last == RowsThrough(dir, k)
                IN  /\ last = before + Len(dir[k].results) + 1
                    /\ \A n \in DOMAIN dir[k].results :
                        /\ rows[before + n].model = dir[k].metadata.model_name
                        /\ rows[before + n].brandName
                                = dir[k].results[n].brand_name
                        /\ rows[before + n].success = dir[k].results[n].success
                        /\ ~IsSummaryRow(rows[before + n])
                    /\ IsSummaryRow(rows[last])
                    /\ rows[last].model = dir[k].metadata.model_name
            /\ DOMAIN stats =
                    { dir[k].metadata.model_name :
                        k \in {j \in RunRecordFiles(dir) : dir[j].results # << >>} }
            /\ \A m \in DOMAIN stats :
                    stats[m].totalBrands = RecordsOfModel(dir, m)

\* two files of two models, of two Result Records and of one
C26_Witness ==
    /\ ReportProbe
    /\ Len(probe.dir) = 2
    /\ RunRecordFiles(probe.dir) = {1, 2}
    /\ Len(probe.dir[1].results) = 2
    /\ Len(probe.dir[2].results) = 1
    /\ probe.dir[1].metadata.model_name # probe.dir[2].metadata.model_name
    /\ Len(probe.out) = 5
    /\ IsSummaryRow(probe.out[3])
    /\ IsSummaryRow(probe.out[5])
    /\ probe.stats[probe.dir[1].metadata.model_name].totalBrands = 2

\* C27: for every threshold and every set of result files, the
\* checkExistingResults of the stub made for show mode without a credential
\* returns the same hasResults verdict, filepath and counts as
\* BrandWebsiteFinder.checkExistingResults.
C27_StubAgreesWithFinder ==
    StoreProbe =>
        /\ probe.stub.hasResults = probe.out.hasResults
        /\ probe.stub.filepath = probe.out.filepath
        /\ probe.stub.successfulCount = probe.out.successfulCount
        /\ probe.stub.totalCount = probe.out.totalCount

\* the two agree on the file and its counts, and on the verdict unless the
\* best file holds fewer qualifying records than the threshold
C27_StubAgreesUnlessBelowThreshold ==
    StoreProbe =>
        /\ probe.stub.filepath = probe.out.filepath
        /\ probe.stub.successfulCount = probe.out.successfulCount
        /\ probe.stub.totalCount = probe.out.totalCount
        /\ probe.stub.hasResults = (probe.out.filepath # << >>)
        /\ (probe.out.filepath = << >>
                \/ probe.out.successfulCount >= probe.count) =>
            probe.stub.hasResults = probe.out.hasResults

\* main's slice of the brand list (line 342, on main's arguments)
RequestedSlice ==
    Slice(brandData.list, args.startIndex, args.startIndex + args.count)

SkippedAsSufficient ==
    /\ pc = "exited"
    /\ exit.by = "existing"
    /\ existingCheck.hasResults

\* C28: whenever main skips a run because the Completion Store reports
\* sufficient results, every brand of the requested slice
\* [startIndex, startIndex + count) has a Result Record with success = true
\* and a website_url in the winning file, so no brand of the slice is left
\* unqueried.
C28_SkippedSliceIsCovered ==
    SkippedAsSufficient =>
        \A n \in DOMAIN RequestedSlice :
            RequestedSlice[n] \in existingCheck.found

\* a skipped run found a qualifying record, sent no request and wrote no
\* file
C28_SkippedRunFoundEnoughRecords ==
    SkippedAsSufficient =>
        /\ existingCheck.found # {}
        /\ fetches = 0
        /\ written = << >>

\* the brands of `names` occur, in order and each at a place of its own,
\* among the first n brands of the slice
IsSubsequenceOfProcessed(names, n) ==
    \E g \in [DOMAIN names -> 1..n] :
        /\ \A j, k \in DOMAIN names : j < k => g[j] < g[k]
        /\ \A j \in DOMAIN names : names[j] = brandsToProcess[g[j]]

\* C29: in every Run Record written (normal or partial), the brand names of
\* metadata.token_usage.per_brand_breakdown form an order-preserving
\* subsequence of the brands that have a Result Record in results (the first
\* Len(results) brands of the slice), with at most one entry per processed
\* brand, and total_requests <= total_brands_processed; the handler never
\* records usage for a brand whose Result Record is absent.
C29_BreakdownWithinProcessedBrands ==
    \A k \in DOMAIN written :
        LET usage == written[k].metadata.token_usage
            breakdown == usage.per_brand_breakdown
            processed == Len(written[k].results)
        IN  /\ processed <= Len(brandsToProcess)
            /\ Len(breakdown) <= processed
            /\ IsSubsequenceOfProcessed(
                    [j \in DOMAIN breakdown |-> breakdown[j].brand_name],
                    processed)
            /\ usage.total_requests <= written[k].metadata.total_brands_processed
            /\ written[k].metadata.total_brands_processed = processed

\* a signal while the request for the second brand is in flight: the partial
\* Run Record holds the record and the usage of the first brand only
C29_Witness ==
    /\ Interrupted
    /\ exit.at = "fetch"
    /\ fetches = 2
    /\ Len(written) = 1
    /\ IsPartialFile(written[1])
    /\ Len(written[1].results) = 1
    /\ Len(written[1].metadata.token_usage.per_brand_breakdown) = 1
    /\ written[1].metadata.token_usage.per_brand_breakdown[1].brand_name
            = brandsToProcess[1]
    /\ written[1].metadata.token_usage.total_requests = 1

\* how a batch can end: after one request per brand of the slice and the
\* save, or in the handler after its save
EndedAfterSave ==
    \/ /\ exit.by = "main"
       /\ fetches = Len(brandsToProcess)
       /\ Len(answers) = fetches
       /\ Len(results) = fetches
       /\ Len(written) = 1
       /\ IsCompleteFile(written[1])
       /\ written[1].results = results
    \/ /\ exit.by = "signal"
       /\ written = gracefulShutdown(FALSE, currentFinder, currentResults,
                                     modelKey, tokenUsage).writes
       /\ \A k \in DOMAIN written : IsPartialFile(written[k])

\* C30: assuming every backend request either answers or hits its fixed
\* timeout, every run of main that starts a batch eventually terminates the
\* process: with no signal, after exactly one request per brand of the slice
\* followed by the save; with a signal, after the handler's save.
C30_BatchTerminates ==
    /\ BatchStarted ~> (pc = "exited")
    /\ []((BatchStarted /\ pc = "exited") => EndedAfterSave)

\* a batch of two brands that ran to its end
C30_Witness ==
    /\ CompletedNormally
    /\ Len(brandsToProcess) = 2
    /\ fetches = 2
    /\ Len(written) = 1

=============================================================================
